---- MODULE Spec2Model ----
(***************************************************************************)
(* Model of the maintenance command dispatcher of rpc-go                   *)
(* (internal/flags: handleMaintenanceCommand and its sub-handlers).        *)
(*                                                                         *)
(* Text that the code inspects character by character (flag values, IP     *)
(* literals, the text of a flag-parse error) is a sequence of tokens.  A   *)
(* token is one character, except that a run of characters holding neither *)
(* '-' nor ':' nor '.' nor a digit may be written as one token (a flag     *)
(* name, the fixed words of an error message).  Text that is only stored   *)
(* and compared (password, URL, hostname) is a TLA+ string.                *)
(***************************************************************************)
EXTENDS Integers, Sequences, FiniteSets, TLC

\* Bounds of the model: the flags on a syncip command line (SpecSyncIP), the
\* flags on a maintenance command line (Spec), the host interfaces that
\* Interfaces() returns and the addresses that InterfaceAddrs() returns.
MaxArgs == 2
MaxDispatchArgs == 1
MaxIfaces == 2
MaxAddrs == 2

Nil == <<>>

(***************************************************************************)
(* Return codes (utils.ReturnCode), by name.                               *)
(***************************************************************************)
Success == "Success"
IncorrectCommandLineParameters == "IncorrectCommandLineParameters"
MissingOrIncorrectPassword == "MissingOrIncorrectPassword"
MissingOrIncorrectURL == "MissingOrIncorrectURL"
MissingOrIncorrectStaticIP == "MissingOrIncorrectStaticIP"
MissingOrIncorrectNetworkMask == "MissingOrIncorrectNetworkMask"
MissingOrIncorrectGateway == "MissingOrIncorrectGateway"
MissingOrIncorrectPrimaryDNS == "MissingOrIncorrectPrimaryDNS"
MissingOrIncorrectSecondaryDNS == "MissingOrIncorrectSecondaryDNS"
OSNetworkInterfacesLookupFailed == "OSNetworkInterfacesLookupFailed"
AMTConnectionFailed == "AMTConnectionFailed"

SubCommands == {"syncclock", "synchostname", "syncip", "changepassword", "syncdeviceinfo"}

\* The flags handleMaintenanceSyncIP registers, and the field each assigns.
SyncIPFlags == {"staticip", "netmask", "gateway", "primarydns", "secondarydns"}

FieldOf(name) ==
  CASE name = "staticip" -> "IpAddress"
    [] name = "netmask" -> "Netmask"
    [] name = "gateway" -> "Gateway"
    [] name = "primarydns" -> "PrimaryDns"
    [] name = "secondarydns" -> "SecondaryDns"

IPFields == {"IpAddress", "Netmask", "Gateway", "PrimaryDns", "SecondaryDns"}

EmptyIPConfiguration == [fld \in IPFields |-> <<>>]

(***************************************************************************)
(* net.ParseIP, as validateIP calls it.                                    *)
(***************************************************************************)
DecChars == <<"0", "1", "2", "3", "4", "5", "6", "7", "8", "9">>
HexChars == DecChars \o <<"a", "b", "c", "d", "e", "f">>

IsDigitOf(chars, ch) == \E d \in 1..Len(chars) : chars[d] = ch
DigitOf(chars, ch) == (CHOOSE d \in 1..Len(chars) : chars[d] = ch) - 1

\* Number of leading tokens of s that are digits of the alphabet chars.
LeadingDigits(chars, s) ==
  CHOOSE c \in 0..Len(s) :
    /\ \A k \in 1..c : IsDigitOf(chars, s[k])
    /\ c = Len(s) \/ ~IsDigitOf(chars, s[c + 1])

RECURSIVE NumValue(_, _, _)
NumValue(chars, s, c) ==
  IF c = 0 THEN 0
  ELSE NumValue(chars, s, c - 1) * Len(chars) + DigitOf(chars, s[c])

\* dtoi / xtoi: the leading number of s, how many tokens it takes, and ok.
xtoiBase(chars, s) ==
  LET c == LeadingDigits(chars, s)
      n == NumValue(chars, s, c)
  IN IF c = 0 THEN [n |-> 0, c |-> 0, ok |-> FALSE]
     ELSE IF n >= 16777215 THEN [n |-> 16777215, c |-> c, ok |-> FALSE]
     ELSE [n |-> n, c |-> c, ok |-> TRUE]

dtoi(s) == xtoiBase(DecChars, s)
xtoi(s) == xtoiBase(HexChars, s)

Drop(s, k) == SubSeq(s, k + 1, Len(s))

\* parseIPv4: the loop over the four octets; p holds the octets read so far.
RECURSIVE parseIPv4Loop(_, _)
parseIPv4Loop(s, p) ==
  IF Len(p) = 4 THEN (IF Len(s) # 0 THEN Nil ELSE p)
  ELSE IF Len(s) = 0 THEN Nil
  ELSE IF Len(p) > 0 /\ s[1] # "." THEN Nil
  ELSE LET t == IF Len(p) > 0 THEN Drop(s, 1) ELSE s
           r == dtoi(t)
       IN IF ~r.ok \/ r.n > 255 THEN Nil
          ELSE IF r.c > 1 /\ t[1] = "0" THEN Nil
          ELSE parseIPv4Loop(Drop(t, r.c), Append(p, r.n))

parseIPv4(s) == parseIPv4Loop(s, <<>>)

Zeros(n) == [k \in 1..n |-> 0]

\* parseIPv6: the loop over the 16-bit groups (two bytes each); g holds the
\* groups read so far, ellipsis the number of groups before "::" or -1.
\* The embedded dotted-quad tail and zones are not modelled.
RECURSIVE parseIPv6Loop(_, _, _)
parseIPv6Loop(s, g, ellipsis) ==
  LET full == 8
      finish(rest, gs) ==
        IF Len(rest) # 0 THEN Nil
        ELSE IF Len(gs) < full
             THEN IF ellipsis < 0 THEN Nil
                  ELSE SubSeq(gs, 1, ellipsis) \o Zeros(full - Len(gs))
                         \o SubSeq(gs, ellipsis + 1, Len(gs))
             ELSE IF ellipsis >= 0 THEN Nil ELSE gs
  IN IF Len(g) >= full THEN finish(s, g)
     ELSE LET r == xtoi(s)
          IN IF ~r.ok \/ r.n > 65535 THEN Nil
             ELSE LET g1 == Append(g, r.n)
                      s1 == Drop(s, r.c)
                  IN IF Len(s1) = 0 THEN finish(s1, g1)
                     ELSE IF s1[1] # ":" \/ Len(s1) = 1 THEN Nil
                     ELSE LET s2 == Drop(s1, 1)
                          IN IF s2[1] = ":"
                             THEN IF ellipsis >= 0 THEN Nil
                                  ELSE IF Len(s2) = 1
                                       THEN SubSeq(g1, 1, Len(g1)) \o Zeros(full - Len(g1))
                                       ELSE parseIPv6Loop(Drop(s2, 1), g1, Len(g1))
                             ELSE parseIPv6Loop(s2, g1, ellipsis)

parseIPv6(s) ==
  IF Len(s) >= 2 /\ s[1] = ":" /\ s[2] = ":"
  THEN IF Len(s) = 2 THEN Zeros(8)
       ELSE parseIPv6Loop(Drop(s, 2), <<>>, 0)
  ELSE parseIPv6Loop(s, <<>>, -1)

\* net.ParseIP: the first '.' or ':' of s decides the family.
ParseIP(s) ==
  IF \E k \in 1..Len(s) : s[k] \in {".", ":"}
  THEN LET k == CHOOSE i \in 1..Len(s) :
                  s[i] \in {".", ":"} /\ \A j \in 1..(i - 1) : s[j] \notin {".", ":"}
       IN IF s[k] = "." THEN parseIPv4(s) ELSE parseIPv6(s)
  ELSE Nil


\* validateIP: the setter of a syncip flag; assigns the field only when the
\* value parses.
validateIP(cfg, assignee, val) ==
  IF ParseIP(val) = Nil
  THEN [err |-> <<"not a valid ip address">>, cfg |-> cfg]
  ELSE [err |-> Nil, cfg |-> [cfg EXCEPT ![assignee] = val]]

(***************************************************************************)
(* flag.FlagSet.Parse.  A command-line flag is [name, val], standing for   *)
(* "-name=val".  The error texts are those of the flag package.            *)
(***************************************************************************)
InvalidValueError(val, name, err) ==
  <<"invalid value ", "\"">> \o val \o <<"\"", " for flag ", "-", name, ":", " ">> \o err

UndefinedFlagError(name) ==
  <<"flag provided but not defined", ":", " ", "-", name>>

\* Parse of the syncip flag set: flags are handled left to right and the
\* first failure stops the parse.
RECURSIVE ParseSyncIP(_, _)
ParseSyncIP(args, cfg) ==
  IF args = <<>> THEN [err |-> Nil, cfg |-> cfg]
  ELSE LET a == Head(args)
       IN IF a.name \notin SyncIPFlags
          THEN [err |-> UndefinedFlagError(a.name), cfg |-> cfg]
          ELSE LET r == validateIP(cfg, FieldOf(a.name), a.val)
               IN IF r.err # Nil
                  THEN [err |-> InvalidValueError(a.val, a.name, r.err), cfg |-> r.cfg]
                  ELSE ParseSyncIP(Tail(args), r.cfg)

\* Parse of a flag set whose only flags are the string flags of `defined`
\* (none for syncclock, synchostname and syncdeviceinfo; "static" for
\* changepassword): static is the value of "static" after the parse.
RECURSIVE ParseStringFlags(_, _, _)
ParseStringFlags(defined, args, static) ==
  IF args = <<>> THEN [err |-> Nil, static |-> static]
  ELSE LET a == Head(args)
       IN IF a.name \notin defined
          THEN [err |-> UndefinedFlagError(a.name), static |-> static]
          ELSE ParseStringFlags(defined, Tail(args), a.val)

\* regexp `-.*:` FindString: the leftmost match, as long as it can be.
FindString(text) ==
  LET starts == {i \in 1..Len(text) :
                   text[i] = "-" /\ \E j \in (i + 1)..Len(text) : text[j] = ":"}
  IN IF starts = {} THEN <<>>
     ELSE LET i == CHOOSE x \in starts : \A y \in starts : x <= y
              j == CHOOSE x \in (i + 1)..Len(text) :
                     text[x] = ":" /\ \A y \in (x + 1)..Len(text) : text[y] # ":"
          IN SubSeq(text, i, j)

\* The switch of handleMaintenanceSyncIP on the flag named in the error.
ClassifyParseError(err) ==
  LET found == FindString(err)
  IN CASE found = <<"-", "netmask", ":">> -> MissingOrIncorrectNetworkMask
       [] found = <<"-", "staticip", ":">> -> MissingOrIncorrectStaticIP
       [] found = <<"-", "gateway", ":">> -> MissingOrIncorrectGateway
       [] found = <<"-", "primarydns", ":">> -> MissingOrIncorrectPrimaryDNS
       [] found = <<"-", "secondarydns", ":">> -> MissingOrIncorrectSecondaryDNS
       [] OTHER -> IncorrectCommandLineParameters

(***************************************************************************)
(* Host addresses: net.IP is a sequence of 4 or 16 bytes, net.IPMask a     *)
(* sequence of bytes; an address is [isIPNet, IP, Mask].                   *)
(***************************************************************************)
\* IP.To4: the 4-byte form of an IPv4 address, Nil otherwise.
To4(ip) ==
  IF Len(ip) = 4 THEN ip
  ELSE IF /\ Len(ip) = 16
          /\ \A k \in 1..10 : ip[k] = 0
          /\ ip[11] = 255
          /\ ip[12] = 255
       THEN SubSeq(ip, 13, 16)
       ELSE Nil

\* IP.IsLoopback
IsLoopback(ip) ==
  IF To4(ip) # Nil THEN To4(ip)[1] = 127
  ELSE ip = Zeros(15) \o <<1>>

\* Decimal text of a byte.
RECURSIVE ubtoa(_)
ubtoa(n) ==
  IF n < 10 THEN <<DecChars[n + 1]>>
  ELSE ubtoa(n \div 10) \o <<DecChars[(n % 10) + 1]>>

\* IP.String: dotted decimal for an IPv4 address.  The IPv6 form is not
\* modelled: handleMaintenanceSyncIP formats IPv4 addresses and their masks.
IPString(ip) ==
  IF Len(ip) = 0 THEN <<"<nil>">>
  ELSE IF To4(ip) # Nil
       THEN LET p4 == To4(ip)
            IN ubtoa(p4[1]) \o <<".">> \o ubtoa(p4[2]) \o <<".">>
                 \o ubtoa(p4[3]) \o <<".">> \o ubtoa(p4[4])
       ELSE <<"?">>

\* The condition under which the address loop takes an address.
IsIPv4NonLoopback(address) ==
  /\ address.isIPNet
  /\ To4(address.IP) # Nil
  /\ ~IsLoopback(address.IP)

\* The address loop of handleMaintenanceSyncIP over the addresses of one
\* interface: every address that qualifies is assigned, in order.
RECURSIVE ScanAddrs(_, _)
ScanAddrs(as, cfg) ==
  IF as = <<>> THEN cfg
  ELSE ScanAddrs(Tail(as),
                 IF IsIPv4NonLoopback(Head(as))
                 THEN [cfg EXCEPT !.IpAddress = IPString(Head(as).IP),
                                  !.Netmask = IPString(Head(as).Mask)]
                 ELSE cfg)

(***************************************************************************)
(* Inputs.                                                                 *)
(***************************************************************************)
\* Flag values: "10.0.0.5", "::1", "10.0.5" and "10-5".
V4Literal == <<"1", "0", ".", "0", ".", "0", ".", "5">>
V6Literal == <<":", ":", "1">>
ShortLiteral == <<"1", "0", ".", "0", ".", "5">>
DashLiteral == <<"1", "0", "-", "5">>
FlagValues == {V4Literal, V6Literal, ShortLiteral, DashLiteral}

\* The flags a command line is drawn from: each syncip flag with a value
\* that parses and one that does not, two flags with the IPv6 literal, one
\* with the value holding a dash, and the flag of changepassword.
FlagNames == SyncIPFlags \cup {"static"}
FlagArgs ==
  [name : SyncIPFlags, val : {V4Literal, ShortLiteral}] \cup
  { [name |-> "staticip", val |-> V6Literal],
    [name |-> "netmask", val |-> V6Literal],
    [name |-> "gateway", val |-> DashLiteral],
    [name |-> "static", val |-> V4Literal] }
FlagLists(n) == UNION {[1..k -> FlagArgs] : k \in 0..n}

\* Hardware addresses: the engine reports the first.
EngineMAC == "aa:bb:cc:dd:ee:ff"
OtherMAC == "00:11:22:33:44:55"
MACs == {EngineMAC, OtherMAC}
MACLists == UNION {[1..k -> MACs] : k \in 0..MaxIfaces}

\* net.IPv4(a, b, c, d): the 16-byte form of an IPv4 address.
IPv4(a, b, c, d) == Zeros(10) \o <<255, 255, a, b, c, d>>

\* Host addresses: 192.168.1.20/24, 10.0.0.7/8, 127.0.0.1/8, fe80::1/64 and
\* an address that is no *net.IPNet (a *net.IPAddr 192.168.1.30).
AddrA == [isIPNet |-> TRUE, IP |-> IPv4(192, 168, 1, 20), Mask |-> <<255, 255, 255, 0>>]
AddrB == [isIPNet |-> TRUE, IP |-> IPv4(10, 0, 0, 7), Mask |-> <<255, 0, 0, 0>>]
AddrLoopback == [isIPNet |-> TRUE, IP |-> IPv4(127, 0, 0, 1), Mask |-> <<255, 0, 0, 0>>]
AddrV6 ==
  [isIPNet |-> TRUE, IP |-> <<254, 128>> \o Zeros(13) \o <<1>>,
   Mask |-> [k \in 1..16 |-> IF k <= 8 THEN 255 ELSE 0]]
AddrIPAddr == [isIPNet |-> FALSE, IP |-> IPv4(192, 168, 1, 30), Mask |-> <<>>]
HostAddrs == {AddrA, AddrB, AddrLoopback, AddrV6, AddrIPAddr}
\* The addresses of one interface: no address twice.
AddrLists ==
  {as \in UNION {[1..k -> HostAddrs] : k \in 0..MaxAddrs} :
     \A i, j \in 1..Len(as) : as[i] = as[j] => i = j}

(***************************************************************************)
(* State.                                                                  *)
(***************************************************************************)
VARIABLES
  commandLineArgs,   \* f.commandLineArgs: program, "maintenance", sub-command, flags
  SubCommand,        \* f.SubCommand
  Password,          \* f.Password
  URL,               \* f.URL
  Local,             \* f.Local
  LocalConfig,       \* f.LocalConfig
  StaticPassword,    \* f.StaticPassword
  HostnameInfo,      \* f.HostnameInfo
  IpConfiguration,   \* f.IpConfiguration
  pc,                \* position in handleMaintenanceCommand and its sub-handler
  rc,                \* the rc of handleMaintenanceCommand: the sub-handler's return
  result,            \* the return value of handleMaintenanceCommand, "none" before
  handler,           \* the sub-handler invoked, "none" if none
  usage,             \* printMaintenanceUsage has been called
  urlChecked,        \* the URL has been looked at
  calls,             \* the external calls made so far, in order, with their outcome
  parseErr,          \* the error of the syncip flag parse, Nil if none
  amtLanIfc,         \* result of GetLANInterfaceSettings
  ifaces,            \* result of Interfaces(): the hardware address of each
  idx,               \* index in ifaces of the loop of handleMaintenanceSyncIP
  addrs,             \* result of InterfaceAddrs in the loop body just run
  scanned,           \* the loop body just run called InterfaceAddrs
  carried            \* some interface scanned so far carried an IPv4 non-loopback address

vars ==
  <<commandLineArgs, SubCommand, Password, URL, Local, LocalConfig, StaticPassword,
    HostnameInfo, IpConfiguration, pc, rc, result, handler, usage, urlChecked,
    calls, parseErr, amtLanIfc, ifaces, idx, addrs, scanned, carried>>

inputVars == <<commandLineArgs, URL, Local>>
resolveVars == <<amtLanIfc, ifaces, idx, addrs, scanned, carried>>
dispatchVars == <<SubCommand, Password, LocalConfig, result, handler, usage, urlChecked>>

InitFields ==
  /\ StaticPassword = <<>>
  /\ HostnameInfo = [DnsSuffixOS |-> "", Hostname |-> ""]
  /\ IpConfiguration = EmptyIPConfiguration
  /\ LocalConfig = [Password |-> ""]
  /\ rc = Success
  /\ result = "none"
  /\ usage = FALSE
  /\ urlChecked = FALSE
  /\ calls = <<>>
  /\ parseErr = Nil
  /\ amtLanIfc = [MACAddress |-> ""]
  /\ ifaces = <<>>
  /\ idx = 1
  /\ addrs = <<>>
  /\ scanned = FALSE
  /\ carried = FALSE

\* A maintenance command line, before handleMaintenanceCommand runs.
Init ==
  /\ commandLineArgs \in
       {<<"rpc", "maintenance">>} \cup
       {<<"rpc", "maintenance", sub>> \o fl :
          sub \in SubCommands \cup {"bogus"}, fl \in FlagLists(MaxDispatchArgs)}
  /\ SubCommand = ""
  /\ Password \in {"", "P@ssw0rd"}
  /\ URL \in {"", "wss://server/activate"}
  /\ Local \in BOOLEAN
  /\ handler = "none"
  /\ pc = "start"
  /\ InitFields

\* handleMaintenanceSyncIP called on a syncip command line.
InitSyncIP ==
  /\ commandLineArgs \in {<<"rpc", "maintenance", "syncip">> \o fl : fl \in FlagLists(MaxArgs)}
  /\ SubCommand = "syncip"
  /\ Password = "P@ssw0rd"
  /\ URL = "wss://server/activate"
  /\ Local = FALSE
  /\ handler = "syncip"
  /\ pc = "syncip"
  /\ InitFields

Call(fn, err) == [fn |-> fn, err |-> err]

\* f.commandLineArgs[3:]
SubArgs == SubSeq(commandLineArgs, 4, Len(commandLineArgs))

(***************************************************************************)
(* handleMaintenanceCommand: the dispatch.                                 *)
(***************************************************************************)
\* No sub-command: usage and IncorrectCommandLineParameters.
NoSubCommand ==
  /\ pc = "start"
  /\ Len(commandLineArgs) = 2
  /\ usage' = TRUE
  /\ result' = IncorrectCommandLineParameters
  /\ pc' = "done"
  /\ UNCHANGED <<inputVars, resolveVars, SubCommand, Password, LocalConfig, StaticPassword,
                 HostnameInfo, IpConfiguration, rc, handler, urlChecked, calls, parseErr>>

\* The switch, on one of the five sub-commands: the sub-handler is entered.
EnterSubHandler ==
  /\ pc = "start"
  /\ Len(commandLineArgs) # 2
  /\ commandLineArgs[3] \in SubCommands
  /\ SubCommand' = commandLineArgs[3]
  /\ handler' = commandLineArgs[3]
  /\ pc' = commandLineArgs[3]
  /\ UNCHANGED <<inputVars, resolveVars, Password, LocalConfig, StaticPassword, HostnameInfo,
                 IpConfiguration, rc, result, usage, urlChecked, calls, parseErr>>

\* Mutant: the switch has no default case, so rc stays Success.
UnknownSubCommand_FallsThrough ==
  /\ pc = "start"
  /\ Len(commandLineArgs) # 2
  /\ commandLineArgs[3] \notin SubCommands
  /\ SubCommand' = commandLineArgs[3]
  /\ pc' = "ret"
  /\ UNCHANGED <<inputVars, resolveVars, Password, LocalConfig, StaticPassword, HostnameInfo,
                 IpConfiguration, rc, result, usage, handler, urlChecked, calls, parseErr>>

\* The default case of the switch, and the return of its rc.
UnknownSubCommand ==
  /\ pc = "start"
  /\ Len(commandLineArgs) # 2
  /\ commandLineArgs[3] \notin SubCommands
  /\ SubCommand' = commandLineArgs[3]
  /\ usage' = TRUE
  /\ rc' = IncorrectCommandLineParameters
  /\ result' = IncorrectCommandLineParameters
  /\ pc' = "done"
  /\ UNCHANGED <<inputVars, resolveVars, Password, LocalConfig, StaticPassword, HostnameInfo,
                 IpConfiguration, handler, urlChecked, calls, parseErr>>

\* Mutant: the sub-handler's code is tested after the password step.
SubHandlerFailed_PromptFirst ==
  /\ pc = "ret"
  /\ rc # Success
  /\ calls' = IF Password = ""
              THEN Append(calls, Call("ReadPasswordFromUser", TRUE))
              ELSE calls
  /\ result' = rc
  /\ pc' = "done"
  /\ UNCHANGED <<inputVars, resolveVars, SubCommand, Password, LocalConfig, StaticPassword,
                 HostnameInfo, IpConfiguration, rc, handler, usage, urlChecked, parseErr>>

\* The sub-handler returned a code other than Success: it is returned.
SubHandlerFailed ==
  /\ pc = "ret"
  /\ rc # Success
  /\ result' = rc
  /\ pc' = "done"
  /\ UNCHANGED <<inputVars, resolveVars, SubCommand, Password, LocalConfig, StaticPassword,
                 HostnameInfo, IpConfiguration, rc, handler, usage, urlChecked, calls,
                 parseErr>>

\* f.ReadPasswordFromUser: the password typed is stored unless it is empty.
ReadPasswordFromUser(typed) ==
  IF typed = ""
  THEN [ok |-> FALSE, rc |-> MissingOrIncorrectPassword, Password |-> Password]
  ELSE [ok |-> TRUE, rc |-> Success, Password |-> typed]

\* Mutant: the URL is required of local invocations too.
CheckURL_IgnoresLocal(pw) ==
  /\ Password' = pw
  /\ LocalConfig' = [LocalConfig EXCEPT !.Password = pw]
  /\ urlChecked' = TRUE
  /\ IF URL = ""
     THEN usage' = TRUE /\ result' = MissingOrIncorrectURL
     ELSE usage' = usage /\ result' = Success

\* Mutant: the password is copied to LocalConfig after the URL test.
CheckURL_CopyOnSuccess(pw) ==
  /\ Password' = pw
  /\ urlChecked' = ~Local
  /\ IF ~Local /\ URL = ""
     THEN usage' = TRUE /\ result' = MissingOrIncorrectURL /\ LocalConfig' = LocalConfig
     ELSE /\ usage' = usage
          /\ result' = Success
          /\ LocalConfig' = [LocalConfig EXCEPT !.Password = pw]

\* The rest of handleMaintenanceCommand once the sub-handler has succeeded,
\* for the credential pw in hand after the prompt (if any).
CheckURL(pw) ==
  /\ Password' = pw
  /\ LocalConfig' = [LocalConfig EXCEPT !.Password = pw]
  /\ urlChecked' = ~Local
  /\ IF ~Local /\ URL = ""
     THEN usage' = TRUE /\ result' = MissingOrIncorrectURL
     ELSE usage' = usage /\ result' = Success

\* The sub-handler succeeded and a password was supplied.
PreconditionsWithPassword ==
  /\ pc = "ret"
  /\ rc = Success
  /\ Password # ""
  /\ CheckURL(Password)
  /\ calls' = calls
  /\ pc' = "done"
  /\ UNCHANGED <<inputVars, resolveVars, SubCommand, StaticPassword, HostnameInfo,
                 IpConfiguration, rc, handler, parseErr>>

\* The sub-handler succeeded and no password was supplied: the user is asked.
PreconditionsWithPrompt ==
  /\ pc = "ret"
  /\ rc = Success
  /\ Password = ""
  /\ \E typed \in {"", "typed"} :
       LET r == ReadPasswordFromUser(typed)
       IN /\ calls' = Append(calls, Call("ReadPasswordFromUser", r.rc # Success))
          /\ IF r.rc # Success
             THEN /\ result' = MissingOrIncorrectPassword
                  /\ UNCHANGED <<Password, LocalConfig, urlChecked, usage>>
             ELSE CheckURL(r.Password)
  /\ pc' = "done"
  /\ UNCHANGED <<inputVars, resolveVars, SubCommand, StaticPassword, HostnameInfo,
                 IpConfiguration, rc, handler, parseErr>>

(***************************************************************************)
(* Sub-handlers.                                                           *)
(***************************************************************************)
handlerFrame ==
  UNCHANGED <<inputVars, resolveVars, dispatchVars, IpConfiguration, parseErr>>

\* syncclock and syncdeviceinfo only parse a flag set with no flags of its own.
handleMaintenanceSyncClock ==
  /\ pc = "syncclock"
  /\ rc' = IF ParseStringFlags({}, SubArgs, <<>>).err # Nil
           THEN IncorrectCommandLineParameters
           ELSE Success
  /\ pc' = "ret"
  /\ UNCHANGED <<StaticPassword, HostnameInfo, calls>>
  /\ handlerFrame

handleMaintenanceSyncDeviceInfo ==
  /\ pc = "syncdeviceinfo"
  /\ rc' = IF ParseStringFlags({}, SubArgs, <<>>).err # Nil
           THEN IncorrectCommandLineParameters
           ELSE Success
  /\ pc' = "ret"
  /\ UNCHANGED <<StaticPassword, HostnameInfo, calls>>
  /\ handlerFrame

handleMaintenanceSyncChangePassword ==
  /\ pc = "changepassword"
  /\ LET r == ParseStringFlags({"static"}, SubArgs, StaticPassword)
     IN /\ StaticPassword' = r.static
        /\ rc' = IF r.err # Nil THEN IncorrectCommandLineParameters ELSE Success
  /\ pc' = "ret"
  /\ UNCHANGED <<HostnameInfo, calls>>
  /\ handlerFrame

\* What GetOSDNSSuffix and os.Hostname may return: a value and an error.
DNSSuffixResults == {[val |-> "corp.example", err |-> FALSE], [val |-> "", err |-> TRUE]}
HostnameResults ==
  {[val |-> "host1", err |-> FALSE], [val |-> "", err |-> FALSE], [val |-> "", err |-> TRUE]}

handleMaintenanceSyncHostname ==
  /\ pc = "synchostname"
  /\ IF ParseStringFlags({}, SubArgs, <<>>).err # Nil
     THEN /\ rc' = IncorrectCommandLineParameters
          /\ UNCHANGED <<HostnameInfo, calls>>
     ELSE \E dns \in DNSSuffixResults, host \in HostnameResults :
            /\ HostnameInfo' = [DnsSuffixOS |-> dns.val, Hostname |-> host.val]
            /\ calls' = calls \o <<Call("GetOSDNSSuffix", dns.err), Call("os.Hostname", host.err)>>
            /\ rc' = IF host.err THEN OSNetworkInterfacesLookupFailed
                     ELSE IF host.val = "" THEN OSNetworkInterfacesLookupFailed
                     ELSE Success
  /\ pc' = "ret"
  /\ UNCHANGED StaticPassword
  /\ handlerFrame

(***************************************************************************)
(* handleMaintenanceSyncIP.                                                *)
(***************************************************************************)
syncIPFrame ==
  UNCHANGED <<inputVars, dispatchVars, StaticPassword, HostnameInfo>>

\* Mutant: no return when a static IP address was given.
SyncIPParse_NoStaticReturn ==
  /\ pc = "syncip"
  /\ LET r == ParseSyncIP(SubArgs, IpConfiguration)
     IN /\ IpConfiguration' = r.cfg
        /\ parseErr' = r.err
        /\ IF r.err # Nil
           THEN rc' = ClassifyParseError(r.err) /\ pc' = "ret"
           ELSE rc' = rc /\ pc' = "getlan"
  /\ UNCHANGED <<calls, resolveVars>>
  /\ syncIPFrame

\* The flag parse, the classification of its error and the return when a
\* static IP address was given.
SyncIPParse ==
  /\ pc = "syncip"
  /\ LET r == ParseSyncIP(SubArgs, IpConfiguration)
     IN /\ IpConfiguration' = r.cfg
        /\ parseErr' = r.err
        /\ IF r.err # Nil
           THEN rc' = ClassifyParseError(r.err) /\ pc' = "ret"
           ELSE IF Len(r.cfg.IpAddress) # 0
                THEN rc' = Success /\ pc' = "ret"
                ELSE rc' = rc /\ pc' = "getlan"
  /\ UNCHANGED <<calls, resolveVars>>
  /\ syncIPFrame

\* Mutant: the error of the engine query is logged and not returned.
GetLANInterfaceSettings_ContinuesOnError ==
  /\ pc = "getlan"
  /\ \E err \in BOOLEAN :
       /\ calls' = Append(calls, Call("GetLANInterfaceSettings", err))
       /\ amtLanIfc' = IF err THEN amtLanIfc ELSE [MACAddress |-> EngineMAC]
  /\ pc' = "interfaces"
  /\ UNCHANGED <<rc, IpConfiguration, parseErr, ifaces, idx, addrs, scanned, carried>>
  /\ syncIPFrame

\* f.amtCommand.GetLANInterfaceSettings(false)
GetLANInterfaceSettings ==
  /\ pc = "getlan"
  /\ \E err \in BOOLEAN :
       /\ calls' = Append(calls, Call("GetLANInterfaceSettings", err))
       /\ IF err
          THEN rc' = AMTConnectionFailed /\ pc' = "ret" /\ amtLanIfc' = amtLanIfc
          ELSE rc' = rc /\ pc' = "interfaces" /\ amtLanIfc' = [MACAddress |-> EngineMAC]
  /\ UNCHANGED <<IpConfiguration, parseErr, ifaces, idx, addrs, scanned, carried>>
  /\ syncIPFrame

\* f.netEnumerator.Interfaces()
Interfaces ==
  /\ pc = "interfaces"
  /\ \E err \in BOOLEAN :
       /\ calls' = Append(calls, Call("Interfaces", err))
       /\ IF err
          THEN rc' = OSNetworkInterfacesLookupFailed /\ pc' = "ret" /\ ifaces' = ifaces
          ELSE rc' = rc /\ pc' = "loop" /\ ifaces' \in MACLists
  /\ UNCHANGED <<IpConfiguration, parseErr, amtLanIfc, idx, addrs, scanned, carried>>
  /\ syncIPFrame

\* The host addresses that are IPv4 and not loopback, by enumeration.
HostIPv4NonLoopback(address) == address \in {AddrA, AddrB}

\* One pass of the loop body over an interface whose hardware address is
\* not the engine's: continue.
SkipInterface ==
  /\ pc = "loop"
  /\ idx <= Len(ifaces)
  /\ Len(IpConfiguration.IpAddress) = 0
  /\ ifaces[idx] # amtLanIfc.MACAddress
  /\ idx' = idx + 1
  /\ addrs' = <<>>
  /\ scanned' = FALSE
  /\ UNCHANGED <<IpConfiguration, parseErr, amtLanIfc, ifaces, carried, calls, rc, pc>>
  /\ syncIPFrame

\* One pass of the loop body over an interface with the engine's hardware
\* address: InterfaceAddrs is called, its error is dropped (the err tested
\* is that of Interfaces(), nil here), and the addresses are scanned.  As
\* with net.Interface.Addrs, a call that fails returns no addresses.
ScanInterface ==
  /\ pc = "loop"
  /\ idx <= Len(ifaces)
  /\ Len(IpConfiguration.IpAddress) = 0
  /\ ifaces[idx] = amtLanIfc.MACAddress
  /\ \E err \in BOOLEAN, as \in AddrLists :
       /\ err => as = <<>>
       /\ calls' = Append(calls, Call("InterfaceAddrs", err))
       /\ addrs' = as
       /\ IpConfiguration' = ScanAddrs(as, IpConfiguration)
       /\ carried' = (carried \/ \E k \in 1..Len(as) : HostIPv4NonLoopback(as[k]))
  /\ scanned' = TRUE
  /\ idx' = idx + 1
  /\ UNCHANGED <<parseErr, amtLanIfc, ifaces, rc, pc>>
  /\ syncIPFrame

\* Mutant: the final test of the address is missing.
FinishSyncIP_AlwaysSuccess ==
  /\ pc = "loop"
  /\ idx > Len(ifaces) \/ Len(IpConfiguration.IpAddress) # 0
  /\ rc' = Success
  /\ pc' = "ret"
  /\ addrs' = <<>>
  /\ scanned' = FALSE
  /\ UNCHANGED <<IpConfiguration, parseErr, amtLanIfc, ifaces, idx, carried, calls>>
  /\ syncIPFrame

\* The end of the loop (no interface left, or the break once an address is
\* set) and the final test of the address.
FinishSyncIP ==
  /\ pc = "loop"
  /\ idx > Len(ifaces) \/ Len(IpConfiguration.IpAddress) # 0
  /\ rc' = IF Len(IpConfiguration.IpAddress) = 0
           THEN OSNetworkInterfacesLookupFailed
           ELSE Success
  /\ pc' = "ret"
  /\ addrs' = <<>>
  /\ scanned' = FALSE
  /\ UNCHANGED <<IpConfiguration, parseErr, amtLanIfc, ifaces, idx, carried, calls>>
  /\ syncIPFrame

(***************************************************************************)
(* Specifications.                                                         *)
(***************************************************************************)
SyncIPNext ==
  \/ SyncIPParse
  \/ GetLANInterfaceSettings
  \/ Interfaces
  \/ SkipInterface
  \/ ScanInterface
  \/ FinishSyncIP

Next ==
  \/ NoSubCommand
  \/ EnterSubHandler
  \/ UnknownSubCommand
  \/ handleMaintenanceSyncClock
  \/ handleMaintenanceSyncDeviceInfo
  \/ handleMaintenanceSyncChangePassword
  \/ handleMaintenanceSyncHostname
  \/ SyncIPNext
  \/ SubHandlerFailed
  \/ PreconditionsWithPassword
  \/ PreconditionsWithPrompt

\* The dispatcher on any maintenance command line.
Spec == Init /\ [][Next]_vars

\* handleMaintenanceSyncIP on any syncip command line.
SpecSyncIP == InitSyncIP /\ [][SyncIPNext]_vars

(***************************************************************************)
(* Vocabulary of the properties.                                           *)
(***************************************************************************)
Called(fn) == \E k \in 1..Len(calls) : calls[k].fn = fn
CalledWith(fn, err) == \E k \in 1..Len(calls) : calls[k] = Call(fn, err)

\* The fields of text s between the separators sep.
RECURSIVE SplitOn(_, _)
SplitOn(s, sep) ==
  IF \A k \in 1..Len(s) : s[k] # sep THEN <<s>>
  ELSE LET k == CHOOSE i \in 1..Len(s) : s[i] = sep /\ \A j \in 1..(i - 1) : s[j] # sep
       IN <<SubSeq(s, 1, k - 1)>> \o SplitOn(Drop(s, k), sep)

\* s is a dotted quad: four decimal numbers of at most 255.
DottedQuad(s) ==
  LET f == SplitOn(s, ".")
  IN /\ Len(f) = 4
     /\ \A i \in 1..4 :
          /\ Len(f[i]) \in 1..3
          /\ \A k \in 1..Len(f[i]) : IsDigitOf(DecChars, f[i][k])
          /\ NumValue(DecChars, f[i], Len(f[i])) <= 255

\* The error code named for a syncip flag.
CodeNamedFor(name) ==
  CASE name = "staticip" -> MissingOrIncorrectStaticIP
    [] name = "netmask" -> MissingOrIncorrectNetworkMask
    [] name = "gateway" -> MissingOrIncorrectGateway
    [] name = "primarydns" -> MissingOrIncorrectPrimaryDNS
    [] name = "secondarydns" -> MissingOrIncorrectSecondaryDNS

\* The value of the last flag `name` on the command line, empty if none.
RECURSIVE LastPassed(_, _)
LastPassed(args, name) ==
  IF args = <<>> THEN <<>>
  ELSE IF args[Len(args)].name = name THEN args[Len(args)].val
  ELSE LastPassed(SubSeq(args, 1, Len(args) - 1), name)

Prompted == Called("ReadPasswordFromUser")

(***************************************************************************)
(* C1: when a sub-handler returns a code other than Success (synchostname  *)
(* returning OSNetworkInterfacesLookupFailed when os.Hostname fails or     *)
(* yields the empty string, in particular), handleMaintenanceCommand       *)
(* returns that code, does not prompt for the password and does not look   *)
(* at the URL.                                                             *)
(***************************************************************************)
C1_SubHandlerFailureShortCircuits ==
  /\ (pc = "done" /\ handler # "none" /\ rc # Success) =>
       (result = rc /\ ~Prompted /\ ~urlChecked)
  /\ (/\ pc \in {"ret", "done"}
      /\ handler = "synchostname"
      /\ Called("os.Hostname")
      /\ CalledWith("os.Hostname", TRUE) \/ HostnameInfo.Hostname = "") =>
       (/\ rc = OSNetworkInterfacesLookupFailed
        /\ pc = "done" => result = OSNetworkInterfacesLookupFailed
        /\ ~Prompted
        /\ ~urlChecked)

C1_Witness ==
  /\ pc = "done"
  /\ handler = "synchostname"
  /\ CalledWith("os.Hostname", FALSE)
  /\ HostnameInfo.Hostname = ""
  /\ result = OSNetworkInterfacesLookupFailed

(***************************************************************************)
(* C2: in the step that follows a sub-handler's Success, the password is   *)
(* prompted for exactly when none was supplied; a failed prompt gives      *)
(* MissingOrIncorrectPassword and the URL is not looked at; otherwise a    *)
(* non-local invocation with an empty URL gives MissingOrIncorrectURL;     *)
(* otherwise the result is Success.                                        *)
(***************************************************************************)
C2_Step ==
  (pc = "ret" /\ rc = Success /\ pc' = "done") =>
    LET prompted == Len(calls') = Len(calls) + 1
                      /\ calls'[Len(calls')].fn = "ReadPasswordFromUser"
        failed == prompted /\ calls'[Len(calls')].err
    IN /\ prompted <=> (Password = "")
       /\ ~prompted => calls' = calls
       /\ failed => ~urlChecked'
       /\ result' = IF failed THEN MissingOrIncorrectPassword
                    ELSE IF ~Local /\ URL = "" THEN MissingOrIncorrectURL
                    ELSE Success

C2_PreconditionOrder == [][C2_Step]_vars

C2_Witness ==
  /\ pc = "done"
  /\ CalledWith("ReadPasswordFromUser", FALSE)
  /\ ~Local
  /\ URL = ""
  /\ result = MissingOrIncorrectURL

(***************************************************************************)
(* C3: with no sub-command name, or a name that is none of the five,       *)
(* handleMaintenanceCommand returns IncorrectCommandLineParameters, prints *)
(* the usage, invokes no sub-handler and makes no external call.           *)
(***************************************************************************)
C3_UnknownSubCommand ==
  (Len(commandLineArgs) = 2 \/ commandLineArgs[3] \notin SubCommands) =>
    /\ handler = "none"
    /\ calls = <<>>
    /\ pc \in {"start", "done"}
    /\ pc = "done" => (result = IncorrectCommandLineParameters /\ usage)

C3_Witness ==
  /\ pc = "done"
  /\ Len(commandLineArgs) > 3
  /\ commandLineArgs[3] = "bogus"
  /\ result = IncorrectCommandLineParameters
  /\ usage

(***************************************************************************)
(* C4 (as claimed): when the first flag whose value is no IPv4 literal is  *)
(* a syncip flag that follows only syncip flags, syncip returns the code   *)
(* named for that flag and no field of IpConfiguration is changed.         *)
(***************************************************************************)
C4_NamedCodeAndNoMutation ==
  \A k \in 1..Len(SubArgs) :
    (/\ pc # "syncip"
     /\ handler = "syncip"
     /\ \A j \in 1..k : SubArgs[j].name \in SyncIPFlags
     /\ \A j \in 1..(k - 1) : DottedQuad(SubArgs[j].val)
     /\ ~DottedQuad(SubArgs[k].val)) =>
      (/\ pc = "ret"
       /\ rc = CodeNamedFor(SubArgs[k].name)
       /\ IpConfiguration = EmptyIPConfiguration)

C6_FirstAddressWins ==
  (pc = "loop" /\ scanned /\ \E k \in 1..Len(addrs) : HostIPv4NonLoopback(addrs[k])) =>
    LET first == CHOOSE k \in 1..Len(addrs) :
                   /\ HostIPv4NonLoopback(addrs[k])
                   /\ \A j \in 1..(k - 1) : ~HostIPv4NonLoopback(addrs[j])
    IN /\ IpConfiguration.IpAddress = IPString(addrs[first].IP)
       /\ IpConfiguration.Netmask = IPString(addrs[first].Mask)

(***************************************************************************)
(* C7: when no static IP was given, the engine query and the enumeration   *)
(* succeeded and no interface with the engine's hardware address carries   *)
(* an IPv4 non-loopback address, syncip returns                            *)
(* OSNetworkInterfacesLookupFailed with IpAddress empty; and it returns    *)
(* Success only with IpAddress non-empty.                                  *)
(***************************************************************************)
C7_NoAddressFails ==
  (pc = "ret" /\ handler = "syncip") =>
    /\ (CalledWith("Interfaces", FALSE) /\ ~carried) =>
         (rc = OSNetworkInterfacesLookupFailed /\ IpConfiguration.IpAddress = <<>>)
    /\ rc = Success => IpConfiguration.IpAddress # <<>>

C7_Witness ==
  /\ pc = "ret"
  /\ CalledWith("Interfaces", FALSE)
  /\ Called("InterfaceAddrs")
  /\ ~carried
  /\ Len(ifaces) = 2
  /\ rc = OSNetworkInterfacesLookupFailed

(***************************************************************************)
(* C8 (as claimed): every field of IpConfiguration is empty or a dotted    *)
(* quad, in every state of syncip.                                         *)
(***************************************************************************)
C8_FieldsAreIPv4 ==
  \A fld \in IPFields :
    IpConfiguration[fld] = <<>> \/ DottedQuad(IpConfiguration[fld])

(***************************************************************************)
(* C9 (as claimed): once handleMaintenanceCommand has returned,            *)
(* LocalConfig.Password is the session's password after Success and is     *)
(* unchanged (empty) after any other code.                                 *)
(***************************************************************************)
C9_CopiedExactlyOnSuccess ==
  pc = "done" =>
    /\ result = Success => LocalConfig.Password = Password
    /\ result # Success => LocalConfig.Password = ""

(***************************************************************************)
(* C9 (amended): LocalConfig.Password is the session's password after      *)
(* Success and after MissingOrIncorrectURL (the copy is made once the      *)
(* credential step has passed, before the URL is looked at); it is         *)
(* unchanged after any other code.                                         *)
(***************************************************************************)
C9_CopiedOncePasswordKnown ==
  pc = "done" =>
    /\ result \in {Success, MissingOrIncorrectURL} =>
         (LocalConfig.Password = Password /\ Password # "")
    /\ result \notin {Success, MissingOrIncorrectURL} => LocalConfig.Password = ""

C9_Witness ==
  /\ pc = "done"
  /\ result = MissingOrIncorrectURL
  /\ LocalConfig.Password = "P@ssw0rd"

(***************************************************************************)
(* C10 (as claimed): once an external call of the resolution has returned  *)
(* an error, no further external call is made and the result is not        *)
(* Success.                                                                *)
(***************************************************************************)
C10_FailFastOnEveryCall ==
  \A k \in 1..Len(calls) :
    calls[k].err =>
      /\ k = Len(calls)
      /\ pc = "ret" => rc # Success

(***************************************************************************)
(* C10 (amended): the external calls run in the order engine query,        *)
(* Interfaces, InterfaceAddrs...; an engine query error returns            *)
(* AMTConnectionFailed and an Interfaces error returns                     *)
(* OSNetworkInterfacesLookupFailed, each at once and with no further call; *)
(* an InterfaceAddrs error does not end the resolution: the loop goes on.  *)
(***************************************************************************)
C10_FailFastOnEngineAndEnumeration ==
  /\ \A k \in 1..Len(calls) :
       calls[k].fn = (IF k = 1 THEN "GetLANInterfaceSettings"
                      ELSE IF k = 2 THEN "Interfaces"
                      ELSE "InterfaceAddrs")
  /\ \A k \in 1..Len(calls) :
       (calls[k].err /\ k <= 2) =>
         /\ k = Len(calls)
         /\ pc = "ret"
         /\ rc = (IF k = 1 THEN AMTConnectionFailed ELSE OSNetworkInterfacesLookupFailed)
  /\ (scanned /\ calls[Len(calls)].err) => (pc = "loop" /\ rc = Success)

C10_Witness ==
  /\ pc = "ret"
  /\ Len(calls) = 4
  /\ calls[3].err
  /\ ~calls[4].err
  /\ rc = Success

====
